---- MODULE Spec2Model ----
(***************************************************************************)
(* Model of skills/analyzing-weights/scripts/analyze-weight-diff.py:       *)
(* parse_weight_block (the record extractor), extract_function_diffs (the  *)
(* function segmenter and the change aggregator) and sections 1 to 5 of    *)
(* main (the significance classifier).                                     *)
(*                                                                         *)
(* A line of text is modelled by what the regular expressions of the       *)
(* script see in it: which patterns match it and the numbers and names     *)
(* they capture.  An optional value is a sequence of length 0 or 1.        *)
(* A percentage (a Python float) is the exact fraction <<num, den>>, and   *)
(* float("inf") is <<1, 0>>; comparisons cross-multiply.                   *)
(***************************************************************************)
EXTENDS Integers, Sequences, FiniteSets, TLC

VARIABLES
    lines,              \* parse_weight_block: the argument
    idx,                \* parse_weight_block: position of the for loop
    result,             \* parse_weight_block: the record under construction
    file_lines,         \* extract_function_diffs: the argument
    pos,                \* extract_function_diffs: position of the for loop
    current_fn,         \* extract_function_diffs: the cursor (<<>> is None)
    fn_removed_lines,   \* extract_function_diffs: defaultdict(list)
    fn_added_lines,     \* extract_function_diffs: defaultdict(list)
    threshold,          \* main: args.threshold
    all_changes,        \* main: list of function changes
    sig_base_inc,       \* main, section 1
    sig_base_dec,       \* main, section 2
    sig_mul,            \* main, section 3: the sorted list
    by_fn,              \* main, section 3: what is printed, group by group
    sig_min,            \* main, section 4
    sig_proof,          \* main, section 5
    prev,               \* the report and threshold of the previous run
    pc                  \* position in the program

vars == <<lines, idx, result, file_lines, pos, current_fn, fn_removed_lines,
          fn_added_lines, threshold, all_changes, sig_base_inc, sig_base_dec,
          sig_mul, by_fn, sig_min, sig_proof, prev, pc>>

parseVars == <<lines, idx, result>>
segVars == <<file_lines, pos, current_fn, fn_removed_lines, fn_added_lines>>
mainVars == <<threshold, all_changes, sig_base_inc, sig_base_dec, sig_mul,
              by_fn, sig_min, sig_proof, prev>>

\* Longest argument of parse_weight_block explored.
MaxLines == 3

\* Longest file block explored.
MaxFileLines == 4

SeqsUpTo(S, n) == UNION {[1..k -> S] : k \in 0..n}

Max(S) == CHOOSE x \in S : \A y \in S : y <= x

Min(S) == CHOOSE x \in S : \A y \in S : x <= y

Abs(x) == IF x < 0 THEN -x ELSE x

(***************************************************************************)
(* Text of a line, as the patterns see it.                                 *)
(*   min    "Minimum execution time: N picoseconds" matched, N             *)
(*   satadd "saturating_add" occurs in the line                            *)
(*   base   "Weight::from_parts(X, Y)" matched, X and Y                    *)
(*   mul    ".saturating_add(Weight::from_parts(X, Y).saturating_mul(      *)
(*           VAR.into()))" matched, X, Y and VAR                           *)
(*   rpv    ".reads((N_u64).saturating_mul(VAR" matched, N and VAR         *)
(*   rb     ".reads(N_u64)" matched, N                                     *)
(*   satmul "saturating_mul" occurs in the line                            *)
(*   decl   the line starts with "fn NAME(", NAME                          *)
(***************************************************************************)
OtherText ==
    [min |-> <<>>, satadd |-> FALSE, base |-> <<>>, mul |-> <<>>,
     rpv |-> <<>>, rb |-> <<>>, satmul |-> FALSE, decl |-> <<>>]

MinText(n) == [OtherText EXCEPT !.min = <<n>>]

BaseText(x, y) == [OtherText EXCEPT !.base = <<x, y>>]

MulText(x, y, var) ==
    [OtherText EXCEPT !.satadd = TRUE, !.satmul = TRUE,
                      !.base = <<x, y>>, !.mul = <<x, y, var>>]

ReadsVarText(n, var) ==
    [OtherText EXCEPT !.satadd = TRUE, !.satmul = TRUE, !.rpv = <<n, var>>]

ReadsBaseText(n) == [OtherText EXCEPT !.satadd = TRUE, !.rb = <<n>>]

\* "Weight::from_parts(X, Y).saturating_add(T::DbWeight::get().reads(N_u64))"
OneLineText(x, y, n) ==
    [OtherText EXCEPT !.satadd = TRUE, !.base = <<x, y>>, !.rb = <<n>>]

DeclText(f) == [OtherText EXCEPT !.decl = <<f>>]

(***************************************************************************)
(* parse_weight_block                                                      *)
(***************************************************************************)
EmptyBlock ==
    [base_ref |-> 0, base_proof |-> 0, min_execution_time |-> <<>>,
     ref_multipliers |-> <<>>, proof_multipliers |-> <<>>,
     db_reads_base |-> 0, db_reads_per_var |-> <<>>]

\* d[key] = val on a dict
Put(d, key, val) ==
    [k \in DOMAIN d \cup {key} |-> IF k = key THEN val ELSE d[k]]

\* d.get(key, 0)
Get(d, key) == IF key \in DOMAIN d THEN d[key] ELSE 0

SetMin_first(block, n) ==
    IF block.min_execution_time = <<>>
    THEN [block EXCEPT !.min_execution_time = <<n>>]
    ELSE block

SetMin(block, n) == [block EXCEPT !.min_execution_time = <<n>>]

SetBase(block, x, y) == [block EXCEPT !.base_ref = x, !.base_proof = y]

StoreMul_unguarded(d, var, val) == Put(d, var, val)

StoreMul(d, var, val) == IF val > 0 THEN Put(d, var, val) ELSE d

StoreReads(d, var, n) == Put(d, var, n)

ParseLine(block, clean) ==
    IF clean.min # <<>> THEN
        SetMin(block, clean.min[1])
    ELSE IF ~clean.satadd /\ clean.base # <<>> THEN
        SetBase(block, clean.base[1], clean.base[2])
    ELSE IF clean.mul # <<>> THEN
        [block EXCEPT
            !.ref_multipliers = StoreMul(@, clean.mul[3], clean.mul[1]),
            !.proof_multipliers = StoreMul(@, clean.mul[3], clean.mul[2])]
    ELSE IF clean.rpv # <<>> THEN
        [block EXCEPT
            !.db_reads_per_var = StoreReads(@, clean.rpv[2], clean.rpv[1])]
    ELSE IF clean.rb # <<>> /\ ~clean.satmul THEN
        [block EXCEPT !.db_reads_base = clean.rb[1]]
    ELSE block

RECURSIVE ParseFrom(_, _, _)
ParseFrom(block, ls, i) ==
    IF i > Len(ls) THEN block
    ELSE ParseFrom(ParseLine(block, ls[i]), ls, i + 1)

\* parse_weight_block(lines) as a value, for its callers
parse_weight_block(ls) == ParseFrom(EmptyBlock, ls, 1)

(***************************************************************************)
(* Lines of a file block of the diff.  mark is the prefix the script       *)
(* tests with startswith ("" when the line has none of them), hunk_fn the  *)
(* name found by "fn (\w+)" in a hunk header, text the line without its    *)
(* one-character marker.                                                   *)
(***************************************************************************)
DiffLine(mark, hunk_fn, text) ==
    [mark |-> mark, hunk_fn |-> hunk_fn, text |-> text]

FileHeaderOld == DiffLine("---", <<>>, OtherText)

FileHeaderNew == DiffLine("+++", <<>>, OtherText)

IndexLine == DiffLine("index ", <<>>, OtherText)

Hunk(f) == DiffLine("@@", <<f>>, OtherText)

HunkPlain == DiffLine("@@", <<>>, OtherText)

Removed(text) == DiffLine("-", <<>>, text)

Added(text) == DiffLine("+", <<>>, text)

Context(text) == DiffLine(" ", <<>>, text)

Bare(text) == DiffLine("", <<>>, text)

(***************************************************************************)
(* extract_function_diffs                                                  *)
(***************************************************************************)
\* the path of the file block: runtime/moonbase/src/weights/pallet_x.rs
Runtime == "moonbase"

Pallet == "pallet_x"

\* the function names of the model, in alphabetic order
FnNames == <<"fa", "fb">>

FnRank(f) == CHOOSE i \in 1..Len(FnNames) : FnNames[i] = f

\* d[key].append(text) on a defaultdict(list)
AppendTo(d, key, text) ==
    Put(d, key, Append(IF key \in DOMAIN d THEN d[key] ELSE <<>>, text))

\* d.get(key, [])
GetList(d, key) == IF key \in DOMAIN d THEN d[key] ELSE <<>>

\* the cursor after a line
CursorAfter_reset(cur, line) ==
    IF line.mark \in {"---", "+++", "index "} THEN cur
    ELSE IF line.mark = "@@" THEN line.hunk_fn
    ELSE IF line.text.decl # <<>> THEN line.text.decl
    ELSE cur

CursorAfter(cur, line) ==
    IF line.mark \in {"---", "+++", "index "} THEN cur
    ELSE IF line.mark = "@@" THEN
        IF line.hunk_fn # <<>> THEN line.hunk_fn ELSE cur
    ELSE IF line.text.decl # <<>> THEN line.text.decl
    ELSE cur

\* the line is appended to the list of the given side
Collects(line, cur, side) ==
    /\ line.mark = side
    /\ cur # <<>>

\* one iteration of the for loop over file_lines
SegmentLine ==
    /\ pc = "segment"
    /\ pos <= Len(file_lines)
    /\ LET line == file_lines[pos]
           cur == CursorAfter(current_fn, line)
       IN /\ current_fn' = cur
          /\ fn_removed_lines' =
                IF Collects(line, cur, "-")
                THEN AppendTo(fn_removed_lines, cur[1], line.text)
                ELSE fn_removed_lines
          /\ fn_added_lines' =
                IF Collects(line, cur, "+")
                THEN AppendTo(fn_added_lines, cur[1], line.text)
                ELSE fn_added_lines
    /\ pos' = pos + 1
    /\ UNCHANGED <<file_lines, parseVars, mainVars, pc>>

\* the iteration orders of a set
Orders(S) ==
    {s \in [1..Cardinality(S) -> S] : \A x \in S : \E i \in DOMAIN s : s[i] = x}

HasData_truthy(block) ==
    \/ block.base_ref > 0
    \/ (block.min_execution_time # <<>> /\ block.min_execution_time[1] # 0)
    \/ DOMAIN block.ref_multipliers # {}

\* has_old, has_new
HasData(block) ==
    \/ block.base_ref > 0
    \/ block.min_execution_time # <<>>
    \/ DOMAIN block.ref_multipliers # {}

Change(fn_name, removed, added) ==
    [runtime |-> Runtime, pallet |-> Pallet, function |-> fn_name,
     old |-> parse_weight_block(removed), new |-> parse_weight_block(added)]

Retained(c) == HasData(c.old) \/ HasData(c.new)

\* the changes of the file block, for one iteration order of all_fns
FunctionDiffs(removed, added, order) ==
    LET all == [k \in 1..Len(order) |->
                    Change(order[k], GetList(removed, order[k]),
                           GetList(added, order[k]))]
    IN SelectSeq(all, Retained)

\* the end of extract_function_diffs and the loop of main that fills
\* all_changes; all_fns is a set of strings, iterated in any order
Aggregate ==
    /\ pc = "segment"
    /\ pos > Len(file_lines)
    /\ \E order \in Orders(DOMAIN fn_removed_lines \cup DOMAIN fn_added_lines) :
        all_changes' = FunctionDiffs(fn_removed_lines, fn_added_lines, order)
    /\ pc' = "classify"
    /\ UNCHANGED <<parseVars, segVars, threshold, sig_base_inc, sig_base_dec,
                   sig_mul, by_fn, sig_min, sig_proof, prev>>

(***************************************************************************)
(* pct and the comparisons of percentages                                  *)
(***************************************************************************)
Inf == <<1, 0>>

pct(old, new) ==
    IF old = 0 THEN (IF new > 0 THEN Inf ELSE <<0, 1>>)
    ELSE <<(new - old) * 100, old>>

\* p < q
Lt(p, q) == p[1] * q[2] < q[1] * p[2]

\* abs(p)
AbsQ(p) == <<Abs(p[1]), p[2]>>

\* a number as a percentage
Q(n) == <<n, 1>>

\* the value given to float("inf") by the sort keys of sections 3 and 5
InfKey == 999999

Range(s) == {s[i] : i \in DOMAIN s}

RECURSIVE Concat(_)
Concat(ss) == IF ss = <<>> THEN <<>> ELSE Head(ss) \o Concat(Tail(ss))

\* list.sort(key=..., reverse=True): s in descending order of key, where
\* key[i] is the key of s[i]; elements with equal keys keep their order
SortDesc(s, key) ==
    LET rank(i) ==
            1 + Cardinality({j \in 1..Len(s) :
                    /\ j # i
                    /\ \/ Lt(key[i], key[j])
                       \/ (~Lt(key[j], key[i]) /\ j < i)})
    IN [k \in 1..Len(s) |-> s[CHOOSE i \in 1..Len(s) : rank(i) = k]]

\* -p
NegQ(p) == <<-p[1], p[2]>>

\* x is truthy, for an optional number
Truthy(x) == x # <<>> /\ x[1] # 0

(***************************************************************************)
(* main, sections 1 to 5                                                   *)
(***************************************************************************)
Above_flipped(p, t) == Lt(p, Q(t))

\* p > threshold
Above(p, t) == Lt(Q(t), p)

\* p < -threshold
Below(p, t) == Lt(p, Q(-t))

BaseEntries(changes) ==
    [k \in 1..Len(changes) |->
        [c |-> changes[k],
         p |-> pct(changes[k].old.base_ref, changes[k].new.base_ref)]]

BothBase(e) == e.c.old.base_ref > 0 /\ e.c.new.base_ref > 0

\* section 1
SigBaseInc(changes, t) ==
    LET keep(e) == BothBase(e) /\ Above(e.p, t)
        kept == SelectSeq(BaseEntries(changes), keep)
    IN SortDesc(kept, [k \in 1..Len(kept) |-> kept[k].p])

\* section 2; the sort is ascending, which is descending on -p
SigBaseDec(changes, t) ==
    LET keep(e) == BothBase(e) /\ Below(e.p, t)
        kept == SelectSeq(BaseEntries(changes), keep)
    IN SortDesc(kept, [k \in 1..Len(kept) |-> NegQ(kept[k].p)])

\* the entry of one variable of one change in section 3, if any
MulEntry(c, var, t) ==
    LET old_val == Get(c.old.ref_multipliers, var)
        new_val == Get(c.new.ref_multipliers, var)
        entry(p) == [c |-> c, var |-> var, old_val |-> old_val,
                     new_val |-> new_val, p |-> p]
    IN IF old_val > 0 /\ new_val > 0 THEN
            IF Above(AbsQ(pct(old_val, new_val)), t)
            THEN <<entry(pct(old_val, new_val))>> ELSE <<>>
       ELSE IF old_val = 0 /\ new_val > 0 THEN <<entry(Inf)>>
       ELSE IF old_val > 0 /\ new_val = 0 THEN <<entry(Q(-100))>>
       ELSE <<>>

\* the entry of one variable of one change in section 5, if any
ProofEntry(c, var) ==
    LET old_val == Get(c.old.proof_multipliers, var)
        new_val == Get(c.new.proof_multipliers, var)
        entry(p) == [c |-> c, var |-> var, old_val |-> old_val,
                     new_val |-> new_val, p |-> p]
    IN IF old_val > 0 /\ new_val > 0 THEN
            IF Above(AbsQ(pct(old_val, new_val)), 100)
            THEN <<entry(pct(old_val, new_val))>> ELSE <<>>
       ELSE IF old_val = 0 /\ new_val > 0 THEN <<entry(Inf)>>
       ELSE <<>>

\* the sort key of sections 3 and 5
MulKey(e) == IF e.p = Inf THEN Q(InfKey) ELSE AbsQ(e.p)

\* sig_mul.sort and sig_proof.sort
SortMul(s) == SortDesc(s, [k \in 1..Len(s) |-> MulKey(s[k])])

\* all_vars of the changes, for sections 3 and 5
TimeVars(c) == DOMAIN c.old.ref_multipliers \cup DOMAIN c.new.ref_multipliers

ProofVars(c) ==
    DOMAIN c.old.proof_multipliers \cup DOMAIN c.new.proof_multipliers

ReadVars(c) ==
    DOMAIN c.old.db_reads_per_var \cup DOMAIN c.new.db_reads_per_var

\* one iteration order for each set of the sequence sets
VarOrders(sets) ==
    LET all == UNION {Orders(sets[k]) : k \in 1..Len(sets)}
    IN {vo \in [1..Len(sets) -> all] :
            \A k \in 1..Len(sets) : vo[k] \in Orders(sets[k])}

\* section 3: sig_mul, for the iteration orders vo of all_vars
SigMul(changes, t, vo) ==
    SortMul(Concat([k \in 1..Len(changes) |->
                Concat([j \in 1..Len(vo[k]) |->
                    MulEntry(changes[k], vo[k][j], t)])]))

\* section 5: sig_proof, for the iteration orders vo of all_vars
SigProof(changes, vo) ==
    SortMul(Concat([k \in 1..Len(changes) |->
                Concat([j \in 1..Len(vo[k]) |->
                    ProofEntry(changes[k], vo[k][j])])]))

\* the group key "[runtime] pallet::function"
Key(c) == <<c.runtime, c.pallet, c.function>>

\* sorted(by_fn.keys()); runtime and pallet are the same in every key
KeyBefore(a, b) == FnRank(a[3]) < FnRank(b[3])

ReadDiffers_increase(or_val, nr_val) == or_val < nr_val

\* the test that prints a read-multiplier line
ReadDiffers(or_val, nr_val) == or_val # nr_val

\* the "DB reads" lines of a change, for an iteration order of all_read_vars
ReadLines(c0, order) ==
    LET line(rv) == [var |-> rv,
                     or_val |-> Get(c0.old.db_reads_per_var, rv),
                     nr_val |-> Get(c0.new.db_reads_per_var, rv)]
        differs(l) == ReadDiffers(l.or_val, l.nr_val)
    IN SelectSeq([j \in 1..Len(order) |-> line(order[j])], differs)

\* what section 3 prints: the groups in key order, each with its entries in
\* sig_mul order and the read lines of its first entry's change; ro gives
\* the iteration order of all_read_vars of each change
ByFn(changes, sig, ro) ==
    LET keys == {Key(sig[i].c) : i \in 1..Len(sig)}
        keyseq == CHOOSE s \in Orders(keys) :
                    \A i, j \in 1..Len(s) : i < j => KeyBefore(s[i], s[j])
        entries(key) == LET has(e) == Key(e.c) = key IN SelectSeq(sig, has)
        c0(key) == entries(key)[1].c
        k0(key) == CHOOSE k \in 1..Len(changes) : changes[k] = c0(key)
    IN [g \in 1..Len(keyseq) |->
            [key |-> keyseq[g], entries |-> entries(keyseq[g]),
             reads |-> ReadLines(c0(keyseq[g]), ro[k0(keyseq[g])])]]

MinEntries(changes) ==
    [k \in 1..Len(changes) |->
        [c |-> changes[k],
         old_min |-> changes[k].old.min_execution_time,
         new_min |-> changes[k].new.min_execution_time]]

\* old_min and new_min and old_min > 0
BothMin(e) == Truthy(e.old_min) /\ Truthy(e.new_min) /\ e.old_min[1] > 0

\* section 4
SigMin(changes, t) ==
    LET keep(e) == BothMin(e) /\ Above(AbsQ(pct(e.old_min[1], e.new_min[1])), t)
        withp(e) == [c |-> e.c, old_min |-> e.old_min[1],
                     new_min |-> e.new_min[1],
                     p |-> pct(e.old_min[1], e.new_min[1])]
        kept == SelectSeq(MinEntries(changes), keep)
        sig == [k \in 1..Len(kept) |-> withp(kept[k])]
    IN SortDesc(sig, [k \in 1..Len(sig) |-> AbsQ(sig[k].p)])

\* sections 1 to 5 of main
Classify ==
    /\ pc = "classify"
    /\ sig_base_inc' = SigBaseInc(all_changes, threshold)
    /\ sig_base_dec' = SigBaseDec(all_changes, threshold)
    /\ \E vo \in VarOrders([k \in 1..Len(all_changes) |->
                                TimeVars(all_changes[k])]) :
       \E ro \in VarOrders([k \in 1..Len(all_changes) |->
                                ReadVars(all_changes[k])]) :
            /\ sig_mul' = SigMul(all_changes, threshold, vo)
            /\ by_fn' = ByFn(all_changes, sig_mul', ro)
    /\ sig_min' = SigMin(all_changes, threshold)
    /\ \E vo \in VarOrders([k \in 1..Len(all_changes) |->
                                ProofVars(all_changes[k])]) :
            sig_proof' = SigProof(all_changes, vo)
    /\ pc' = "done"
    /\ UNCHANGED <<parseVars, segVars, threshold, all_changes, prev>>

\* the sections of the report
Report ==
    [sig_base_inc |-> sig_base_inc, sig_base_dec |-> sig_base_dec,
     sig_mul |-> sig_mul, by_fn |-> by_fn, sig_min |-> sig_min,
     sig_proof |-> sig_proof]

\* --threshold, default 50
DefaultThreshold == 50

Thresholds == {DefaultThreshold, 80, 150}

\* the script is run again on the same diff, with any threshold
Rerun ==
    /\ pc = "done"
    /\ prev = <<>>
    /\ prev' = <<[threshold |-> threshold, report |-> Report]>>
    /\ \E t \in Thresholds : threshold' = t
    /\ pos' = 1
    /\ current_fn' = <<>>
    /\ fn_removed_lines' = <<>>
    /\ fn_added_lines' = <<>>
    /\ all_changes' = <<>>
    /\ sig_base_inc' = <<>>
    /\ sig_base_dec' = <<>>
    /\ sig_mul' = <<>>
    /\ by_fn' = <<>>
    /\ sig_min' = <<>>
    /\ sig_proof' = <<>>
    /\ pc' = "segment"
    /\ UNCHANGED <<parseVars, file_lines>>

IdleParse ==
    /\ lines = <<>>
    /\ idx = 0
    /\ result = EmptyBlock

\* the state at the start of a run on a file block over the given lines
InitRun(alphabet, ts) ==
    /\ IdleParse
    /\ file_lines \in SeqsUpTo(alphabet, MaxFileLines)
    /\ pos = 1
    /\ current_fn = <<>>
    /\ fn_removed_lines = <<>>
    /\ fn_added_lines = <<>>
    /\ threshold \in ts
    /\ all_changes = <<>>
    /\ sig_base_inc = <<>>
    /\ sig_base_dec = <<>>
    /\ sig_mul = <<>>
    /\ by_fn = <<>>
    /\ sig_min = <<>>
    /\ sig_proof = <<>>
    /\ prev = <<>>
    /\ pc = "segment"

\* lines that change minimum execution times and base costs
TimeLines ==
    {Hunk("fa"), Hunk("fb"), Removed(MinText(100)), Added(MinText(0)),
     Added(MinText(200)), Removed(BaseText(100, 1)), Added(BaseText(200, 1))}

\* lines that change per-variable terms
TermLines ==
    {Hunk("fa"), Hunk("fb"), Removed(MulText(1, 1, "m")),
     Added(MulText(10001, 5, "m")), Added(MulText(2, 3, "m")),
     Added(MulText(5, 0, "n")), Added(ReadsVarText(2, "n")),
     Removed(ReadsVarText(3, "m"))}

\* lines that change a value of each category gated by the threshold
MonoLines ==
    {Hunk("fa"), Removed(MinText(100)), Added(MinText(200)),
     Removed(BaseText(100, 1)), Added(BaseText(200, 1)),
     Added(BaseText(40, 1)), Removed(MulText(1, 1, "m")),
     Added(MulText(2, 3, "m"))}

\* lines of every kind the segmenter tells apart
SegLines ==
    {FileHeaderOld, IndexLine, Hunk("fa"), HunkPlain,
     Context(DeclText("fb")), Removed(DeclText("fa")),
     Removed(BaseText(100, 1)), Added(BaseText(200, 1)),
     Context(MinText(100)), Bare(OtherText)}

\* lines with and without the data that retains a function
AggLines ==
    {Hunk("fa"), Hunk("fb"), Added(BaseText(100, 1)), Added(BaseText(0, 7)),
     Removed(MinText(0)), Added(MulText(0, 5, "n")),
     Added(MulText(3, 0, "n")), Removed(ReadsVarText(2, "n")),
     Removed(OtherText)}

Init == InitRun(TimeLines, Thresholds)

InitTerms == InitRun(TermLines, Thresholds)

InitMono == InitRun(MonoLines, Thresholds)

InitSeg == InitRun(SegLines, {DefaultThreshold})

InitAgg == InitRun(AggLines, {DefaultThreshold})

Next == SegmentLine \/ Aggregate \/ Classify \/ Rerun

\* extract_function_diffs alone
NextSeg == SegmentLine \/ Aggregate

Spec == Init /\ [][Next]_vars

SpecTerms == InitTerms /\ [][Next]_vars

SpecMono == InitMono /\ [][Next]_vars

SpecSeg == InitSeg /\ [][NextSeg]_vars

SpecAgg == InitAgg /\ [][NextSeg]_vars

Flagged(sig, c) == \E e \in Range(sig) : e.c = c

\* C3: of two runs on the same diff, the run with the higher threshold flags
\* a subset of what the other flags, in base time increase, base time
\* decrease, time-multiplier change and minimum execution time change.
C3_ThresholdMonotone ==
    (pc = "done" /\ prev # <<>> /\ prev[1].threshold < threshold) =>
        /\ Range(sig_base_inc) \subseteq Range(prev[1].report.sig_base_inc)
        /\ Range(sig_base_dec) \subseteq Range(prev[1].report.sig_base_dec)
        /\ Range(sig_mul) \subseteq Range(prev[1].report.sig_mul)
        /\ Range(sig_min) \subseteq Range(prev[1].report.sig_min)

\* C3 witness: the threshold was raised, a base time decrease was dropped
\* and the entry of a multiplier that appeared stayed.
C3_Witness ==
    /\ pc = "done" /\ prev # <<>> /\ prev[1].threshold < threshold
    /\ prev[1].report.sig_base_dec # <<>> /\ sig_base_dec = <<>>
    /\ sig_mul # <<>> /\ sig_mul[1].p = Inf

\* C4: two runs on the same diff with the same threshold give the same
\* report, entry for entry and in the same order.
C4_Deterministic ==
    (pc = "done" /\ prev # <<>> /\ prev[1].threshold = threshold) =>
        Report = prev[1].report

\* the read-multiplier deltas of a change
ReadDeltas(c) ==
    {[var |-> v, or_val |-> Get(c.old.db_reads_per_var, v),
      nr_val |-> Get(c.new.db_reads_per_var, v)] :
        v \in {w \in ReadVars(c) : Get(c.old.db_reads_per_var, w)
                                     # Get(c.new.db_reads_per_var, w)}}

\* the read-multiplier lines printed under the key of a change
ReportedReads(c) ==
    UNION {Range(by_fn[g].reads) :
            g \in {h \in DOMAIN by_fn : by_fn[h].key = Key(c)}}

\* C5 as stated: every read-multiplier delta of every retained change is
\* reported, whatever the threshold.
C5_ReadsUnconditional ==
    pc = "done" =>
        \A k \in 1..Len(all_changes) :
            ReadDeltas(all_changes[k]) \subseteq ReportedReads(all_changes[k])

\* C5 amended: the read-multiplier deltas of a change are reported, all of
\* them and without a gate of their own, exactly when the change has an
\* entry in the per-variable time-multiplier list; a change without such an
\* entry has none of its deltas reported.
C5_ReadsWithGroup ==
    pc = "done" =>
        \A k \in 1..Len(all_changes) :
            ReportedReads(all_changes[k]) =
                IF Flagged(sig_mul, all_changes[k])
                THEN ReadDeltas(all_changes[k]) ELSE {}

\* C5 witness: at the highest threshold a change with a time-multiplier
\* entry has a read-multiplier delta between two nonzero values reported.
C5_Witness ==
    /\ pc = "done"
    /\ threshold = 150
    /\ \E k \in 1..Len(all_changes) :
        /\ Flagged(sig_mul, all_changes[k])
        /\ \E d \in ReportedReads(all_changes[k]) : d.or_val = 3 /\ d.nr_val = 0

\* C7: a change is in the minimum execution time list exactly when the time
\* is present on both sides, the old one is not 0 and |percent| > threshold.
C7_MinFlagged ==
    pc = "done" =>
        \A k \in 1..Len(all_changes) :
            LET c == all_changes[k] IN
            Flagged(sig_min, c) <=>
                /\ c.old.min_execution_time # <<>>
                /\ c.new.min_execution_time # <<>>
                /\ c.old.min_execution_time[1] # 0
                /\ Lt(Q(threshold), AbsQ(pct(c.old.min_execution_time[1],
                                             c.new.min_execution_time[1])))

Appeared(e) == e.old_val = 0 /\ e.new_val > 0

AppearedFirst(sig) ==
    \A i, j \in 1..Len(sig) :
        i < j =>
            /\ Appeared(sig[j]) => Appeared(sig[i])
            /\ (~Appeared(sig[i]) /\ ~Appeared(sig[j]))
                    => ~Lt(AbsQ(sig[i].p), AbsQ(sig[j].p))

\* C9: in the time-multiplier list and in the proof-size list, every
\* "appeared" entry precedes every entry with a finite percent change, and
\* the finite ones are in descending order of absolute percent change.
C9_AppearedFirst ==
    pc = "done" => AppearedFirst(sig_mul) /\ AppearedFirst(sig_proof)

AllFns == DOMAIN fn_removed_lines \cup DOMAIN fn_added_lines

InChanges(f) == \E k \in 1..Len(all_changes) : all_changes[k].function = f

HasTimeData(r) ==
    \/ r.base_ref > 0
    \/ r.min_execution_time # <<>>
    \/ DOMAIN r.ref_multipliers # {}

\* the text has no minimum execution time, no base cost with a time above 0
\* and no multiplier term with a time part above 0
NoTimeText(text) ==
    /\ text.min = <<>>
    /\ text.base = <<>> \/ text.base[1] = 0 \/ text.satadd
    /\ text.mul = <<>> \/ text.mul[1] = 0

\* C6: a function of the file block is in the change list exactly when its
\* old or its new record has a base time above 0, a minimum execution time
\* or a time multiplier; a function whose lines carry none of these is not
\* in the list.
C6_Retention ==
    pc = "classify" =>
        /\ \A f \in AllFns :
            InChanges(f) <=>
                \/ HasTimeData(parse_weight_block(GetList(fn_removed_lines, f)))
                \/ HasTimeData(parse_weight_block(GetList(fn_added_lines, f)))
        /\ \A k \in 1..Len(all_changes) :
            /\ all_changes[k].function \in AllFns
            /\ HasTimeData(all_changes[k].old) \/ HasTimeData(all_changes[k].new)
        /\ \A f \in AllFns :
            (\A text \in Range(GetList(fn_removed_lines, f))
                        \cup Range(GetList(fn_added_lines, f)) :
                NoTimeText(text))
            => ~InChanges(f)

\* C6 witness: one function is retained for a minimum execution time of 0
\* alone, another with proof-size or read terms only is dropped.
C6_Witness ==
    /\ pc = "classify"
    /\ \E k \in 1..Len(all_changes) :
        /\ all_changes[k].old.min_execution_time = <<0>>
        /\ all_changes[k].old.base_ref = 0
        /\ ~HasTimeData(all_changes[k].new)
    /\ \E f \in AllFns :
        /\ ~InChanges(f)
        /\ \E text \in Range(GetList(fn_removed_lines, f))
                        \cup Range(GetList(fn_added_lines, f)) :
            text.mul # <<>> \/ text.rpv # <<>>

\* the line names a function
Identifies(line) ==
    \/ line.mark = "@@" /\ line.hunk_fn # <<>>
    \/ line.mark \in {"-", "+", " ", ""} /\ line.text.decl # <<>>

NamedBy(line) == IF line.mark = "@@" THEN line.hunk_fn ELSE line.text.decl

\* the function named by the most recent function-identifying line among
\* the first i lines
CursorAt(i) ==
    LET S == {j \in 1..i : Identifies(file_lines[j])}
    IN IF S = {} THEN <<>> ELSE NamedBy(file_lines[Max(S)])

\* the texts of the lines of one side among the first n lines that follow
\* a line naming f, in input order
Attributed(side, f, n) ==
    LET mine(i) == file_lines[i].mark = side /\ CursorAt(i) = <<f>>
        at == SelectSeq([i \in 1..n |-> i], mine)
    IN [k \in 1..Len(at) |-> file_lines[at[k]].text]

SegmentedRight ==
    /\ current_fn = CursorAt(pos - 1)
    /\ \A f \in Range(FnNames) :
        /\ GetList(fn_removed_lines, f) = Attributed("-", f, pos - 1)
        /\ GetList(fn_added_lines, f) = Attributed("+", f, pos - 1)
    /\ AllFns \subseteq Range(FnNames)

\* C10: after any number of lines, the removed and added lists of each
\* function hold exactly the removal and addition lines met since a line
\* named that function and before a line named another, marker stripped and
\* in input order; nothing met before the first naming line and no context
\* line is in a list; the cursor, once set, is never unset.
C10_Attribution ==
    /\ []SegmentedRight
    /\ [][current_fn # <<>> => current_fn' # <<>>]_vars

\* C10 witness: a line before the first naming line was dropped, and a
\* removal after a hunk header without a name went to the function named
\* before that header.
C10_Witness ==
    /\ pos = 5
    /\ file_lines[1].mark = "+"
    /\ file_lines[2] = Hunk("fa")
    /\ file_lines[3] = HunkPlain
    /\ file_lines[4].mark = "-" /\ file_lines[4].text.decl = <<>>
    /\ fn_added_lines = <<>>
    /\ Len(GetList(fn_removed_lines, "fa")) = 1

ParseTexts ==
    {MinText(100), MinText(7), BaseText(100, 1), BaseText(200, 2),
     MulText(0, 5, "n"), MulText(3, 0, "n"), ReadsVarText(0, "n"),
     ReadsVarText(2, "m"), ReadsBaseText(3), OneLineText(300, 3, 4),
     OtherText}

IdleMain ==
    /\ threshold = 0
    /\ all_changes = <<>>
    /\ sig_base_inc = <<>>
    /\ sig_base_dec = <<>>
    /\ sig_mul = <<>>
    /\ by_fn = <<>>
    /\ sig_min = <<>>
    /\ sig_proof = <<>>
    /\ prev = <<>>

IdleSeg ==
    /\ file_lines = <<>>
    /\ pos = 0
    /\ current_fn = <<>>
    /\ fn_removed_lines = <<>>
    /\ fn_added_lines = <<>>

InitParse ==
    /\ lines \in SeqsUpTo(ParseTexts, MaxLines)
    /\ idx = 1
    /\ result = EmptyBlock
    /\ IdleSeg
    /\ IdleMain
    /\ pc = "parse"

\* one iteration of the for loop
ParseStep ==
    /\ pc = "parse"
    /\ idx <= Len(lines)
    /\ result' = ParseLine(result, lines[idx])
    /\ idx' = idx + 1
    /\ UNCHANGED <<lines, segVars, mainVars, pc>>

\* return result
ParseReturn ==
    /\ pc = "parse"
    /\ idx > Len(lines)
    /\ pc' = "parsed"
    /\ UNCHANGED <<parseVars, segVars, mainVars>>

NextParse == ParseStep \/ ParseReturn

SpecParse == InitParse /\ [][NextParse]_vars

\* positions of the base cost declarations of the argument
BaseIdx == {i \in 1..Len(lines) : ~lines[i].satadd /\ lines[i].base # <<>>}

\* positions of the minimum execution time lines of the argument
MinIdx == {i \in 1..Len(lines) : lines[i].min # <<>>}

\* C1: when the lines hold two or more base cost declarations, the record's
\* base time and base proof size are those of the first one.
C1_FirstBaseWins ==
    (pc = "parsed" /\ Cardinality(BaseIdx) >= 2) =>
        /\ result.base_ref = lines[Min(BaseIdx)].base[1]
        /\ result.base_proof = lines[Min(BaseIdx)].base[2]

MulValues(block) ==
    {block.ref_multipliers[v] : v \in DOMAIN block.ref_multipliers}
    \cup {block.proof_multipliers[v] : v \in DOMAIN block.proof_multipliers}

ReadValues(block) ==
    {block.db_reads_per_var[v] : v \in DOMAIN block.db_reads_per_var}

\* C2 as stated: every entry of the three multiplier mappings of the record
\* is strictly positive, the read multipliers included.
C2_AllPositive ==
    \A x \in MulValues(result) \cup ReadValues(result) : x > 0

\* C2 amended: every entry of the time and proof-size multiplier mappings is
\* strictly positive (a zero value creates no entry); a read multiplier is
\* stored as matched, so it is non-negative and a term with N = 0 creates an
\* entry with value 0.
C2_TimeProofPositive ==
    /\ \A x \in MulValues(result) : x > 0
    /\ \A x \in ReadValues(result) : x >= 0
    /\ \A i \in 1..(idx - 1) :
        (lines[i].min = <<>> /\ lines[i].mul = <<>> /\ lines[i].rpv # <<>>
         /\ (lines[i].satadd \/ lines[i].base = <<>>)
         /\ \A j \in (i + 1)..(idx - 1) :
                lines[j].rpv = <<>> \/ lines[j].rpv[2] # lines[i].rpv[2])
        => /\ lines[i].rpv[2] \in DOMAIN result.db_reads_per_var
           /\ result.db_reads_per_var[lines[i].rpv[2]] = lines[i].rpv[1]

\* C2 witness: a term with time part 0 was parsed and left no time entry,
\* while its proof-size part was stored.
C2_Witness ==
    /\ pc = "parsed"
    /\ \E i \in 1..Len(lines) : lines[i].mul # <<>> /\ lines[i].mul[1] = 0
    /\ DOMAIN result.ref_multipliers = {}
    /\ DOMAIN result.proof_multipliers # {}
    /\ \E v \in DOMAIN result.db_reads_per_var : result.db_reads_per_var[v] = 0

\* C8 as stated: with two or more minimum execution time lines, the record
\* keeps the value of the first one.
C8_FirstMinWins ==
    (pc = "parsed" /\ Cardinality(MinIdx) >= 2) =>
        result.min_execution_time = lines[Min(MinIdx)].min

\* C8 amended: with two or more minimum execution time lines, the record
\* keeps the value of the last one; every such line overwrites the field.
C8_LastMinWins ==
    (pc = "parsed" /\ Cardinality(MinIdx) >= 2) =>
        result.min_execution_time = lines[Max(MinIdx)].min

\* C8 witness: two minimum execution time lines with different values.
C8_Witness ==
    /\ pc = "parsed"
    /\ Cardinality(MinIdx) >= 2
    /\ lines[Min(MinIdx)].min # lines[Max(MinIdx)].min

====
